---- MODULE Spec2Model ----
(***************************************************************************)
(* last-spot: Last.fm listening history -> Spotify playlist.               *)
(*                                                                         *)
(* The program is one sequential thread (src/src/main.rs): main calls      *)
(* get_recommendations, get_spotify_auth_token and create_spotify_playlist *)
(* in that order.  Every network request is one step of the model; the     *)
(* remote side's answer is drawn nondeterministically in that step.        *)
(* A variable that models a local of a function keeps its last value       *)
(* after the function has returned.                                        *)
(***************************************************************************)
EXTENDS Integers, Sequences, FiniteSets, TLC

VARIABLES
    pc,                   \* position of the single thread of control
    lastfm_top,           \* what the source catalog holds for user.gettopalbums
    \* get_recommendations
    top_albums,           \* deserialized TopAlbums response
    ai,                   \* index of the `for album in ...` loop
    seen_artists,         \* HashSet of top-album artist names
    similar_requests,     \* artist.getsimilar requests received by the source catalog
    similar,              \* deserialized SimilarArtists response
    si,                   \* index of the `for similar_artist in ...take(2)` loop
    recommendations,      \* Vec<(artist, album)>
    contributors,         \* top-album artists whose iteration pushed a recommendation
    recs_result,          \* Result returned by get_recommendations
    \* get_spotify_auth_token
    state,                \* the random state string
    listener,             \* "none" | "bound" | "closed"
    accepted,             \* number of connections accepted on the listener
    request_line,         \* first line read from the accepted connection
    code,                 \* the extracted authorization code
    stream,               \* the accepted connection: "none" | "open" | "closed"
    page_written,         \* success page written to the connection
    token_requests,       \* POSTs received by the token endpoint
    token_response,       \* outcome of the token request
    spotify_token,        \* the access token handed to main
    auth_result,          \* Result returned by get_spotify_auth_token
    \* create_spotify_playlist
    create_requests,      \* POSTs received by the playlist-creation endpoint
    playlist_response,    \* outcome of the playlist-creation request
    playlist,             \* deserialized SpotifyPlaylist
    ri,                   \* index of the `for (artist, album) in recommendations` loop
    search_response,      \* outcome of the search request of the last iteration
    tracks_response,      \* outcome of the album-tracks request of the last iteration
    album_track_requests, \* album-tracks requests received by the target catalog
    track_uris,           \* Vec of matched track URIs
    bi,                   \* index of the `for chunk in track_uris.chunks(100)` loop
    add_calls,            \* track-addition requests received by the target catalog
    builder_result,       \* Result returned by create_spotify_playlist
    main_result           \* Result returned by main

vars == <<pc, lastfm_top, top_albums, ai, seen_artists, similar_requests,
          similar, si, recommendations, contributors, recs_result, state,
          listener, accepted, request_line, code, stream, page_written,
          token_requests, token_response, spotify_token, auth_result,
          create_requests, playlist_response, playlist, ri, search_response,
          tracks_response, album_track_requests, track_uris, bi, add_calls,
          builder_result, main_result>>

discoveryVars == <<top_albums, ai, seen_artists, similar_requests, similar, si,
                   recommendations, contributors, recs_result>>
authVars == <<state, listener, accepted, request_line, code, stream, page_written,
              token_requests, token_response, spotify_token, auth_result>>
builderVars == <<create_requests, playlist_response, playlist, ri, search_response,
                 tracks_response, album_track_requests, track_uris, bi,
                 add_calls, builder_result>>

(***************************************************************************)
(* Program constants.                                                      *)
(***************************************************************************)
Cap == 10
TakeSimilar == 2
ChunkSize == 100

(***************************************************************************)
(* Bounds of the model.                                                    *)
(***************************************************************************)
MaxTop == 7          \* longest top-albums response in the discovery runs
MaxTopMain == 1      \* longest top-albums response in the end-to-end runs
MaxTopLive == 2      \* longest top-albums response in the runs checked for termination
MaxQuery == 2        \* most query pairs in a callback path
FreeRecs == 3        \* recommendations whose search may answer anything
SmallRecs == 3       \* short recommendation lists handed to the builder
LastBatch == 50          \* size of the last batch of the long builder input

Min(a, b) == IF a < b THEN a ELSE b

(***************************************************************************)
(* Result<T, Box<dyn Error>>: the Ok payload lives in the variable that    *)
(* the function returns (recommendations, spotify_token, playlist).        *)
(***************************************************************************)
NoResult == [status |-> "none", err |-> ""]
Ok == [status |-> "ok", err |-> ""]
Err(e) == [status |-> "err", err |-> e]

(***************************************************************************)
(* The source catalog (Last.fm).                                           *)
(***************************************************************************)
TopArtistName(k) == "a" \o ToString(k)
SimNames == {"a2", "b1"}
TopAlbumName(artist) == "LP " \o artist

\* a top-albums response of n albums whose artists repeat with period d
TopList(n, d) ==
    [i \in 1..n |-> [name |-> TopAlbumName(TopArtistName(((i - 1) % d) + 1)),
                     artist |-> TopArtistName(((i - 1) % d) + 1)]]

DiscoveryTopInputs ==
    {TopList(n, d) : n \in 0..MaxTop, d \in 1..MaxTop}

MainTopInputs ==
    {TopList(n, d) : n \in 0..MaxTopMain, d \in 1..MaxTopMain}

\* top-albums responses of one artist
LiveTopInputs ==
    {TopList(n, 1) : n \in 0..MaxTopLive}

\* answers to artist.getsimilar: lists of distinct artist names
SimilarBodies ==
    {<<>>} \cup {<<a>> : a \in SimNames}
           \cup {p \in SimNames \X SimNames : p[1] # p[2]}

Response(kind, body) == [kind |-> kind, body |-> body]

\* send() fails ("transport"), json() fails ("decode"), or a body arrives;
\* an artist is not listed as similar to itself
SimilarResponses(artist) ==
    {Response("transport", <<>>), Response("decode", <<>>)}
        \cup {Response("ok", b) :
                b \in {l \in SimilarBodies : \A i \in DOMAIN l : l[i] # artist}}

\* answers to artist.gettopalbums&limit=1 for one artist
ArtistAlbumsResponses(artist) ==
    {Response("transport", <<>>), Response("decode", <<>>), Response("ok", <<>>),
     Response("ok", <<[name |-> TopAlbumName(artist), artist |-> artist]>>)}

ReachedCapGt(recs) == Len(recs) > Cap
ReachedCapNever(recs) == FALSE
ReachedCap(recs) == Len(recs) >= Cap

MarkSeenNever(seen, artist) == seen
\* line 203: seen_artists.insert(album.artist.name.clone())
MarkSeen(seen, artist) == seen \cup {artist}

ReturnRecs(result) ==
    /\ pc' = "recs_returned"
    /\ recs_result' = result

FetchTopAlbums ==
    /\ pc = "fetch_top_albums"
    /\ \E outcome \in {"ok", "transport", "decode"} :
         IF outcome = "ok"
         THEN /\ top_albums' = lastfm_top
              /\ ai' = 1
              /\ pc' = "top_album_loop"
              /\ UNCHANGED recs_result
         ELSE /\ ReturnRecs(Err("top albums: " \o outcome))
              /\ UNCHANGED <<top_albums, ai>>
    /\ UNCHANGED <<lastfm_top, seen_artists, similar_requests, similar, si,
                   recommendations, contributors, authVars, builderVars,
                   main_result>>

NextAlbum ==
    /\ pc = "top_album_loop"
    /\ IF ai > Len(top_albums)
       THEN /\ ReturnRecs(Ok)
            /\ UNCHANGED <<ai, seen_artists, similar_requests, similar, si>>
       ELSE LET artist == top_albums[ai].artist IN
            IF artist \in seen_artists
            THEN /\ ai' = ai + 1
                 /\ UNCHANGED <<pc, seen_artists, similar_requests, similar, si,
                                recs_result>>
            ELSE /\ seen_artists' = MarkSeen(seen_artists, artist)
                 /\ similar_requests' = Append(similar_requests, artist)
                 /\ \E resp \in SimilarResponses(artist) :
                      CASE resp.kind = "transport" ->
                             /\ ReturnRecs(Err("similar artists: transport"))
                             /\ UNCHANGED <<ai, similar, si>>
                        [] resp.kind = "decode" ->
                             /\ ai' = ai + 1
                             /\ UNCHANGED <<pc, similar, si, recs_result>>
                        [] resp.kind = "ok" ->
                             /\ similar' = resp.body
                             /\ si' = 1
                             /\ pc' = "similar_loop"
                             /\ UNCHANGED <<ai, recs_result>>
    /\ UNCHANGED <<lastfm_top, top_albums, recommendations, contributors,
                   authVars, builderVars, main_result>>

NextSimilar ==
    /\ pc = "similar_loop"
    /\ IF si > Min(TakeSimilar, Len(similar))
       THEN /\ ai' = ai + 1
            /\ pc' = "top_album_loop"
            /\ UNCHANGED <<si, recommendations, contributors, recs_result>>
       ELSE \E resp \in ArtistAlbumsResponses(similar[si]) :
              CASE resp.kind = "transport" ->
                     /\ ReturnRecs(Err("artist top albums: transport"))
                     /\ UNCHANGED <<ai, si, recommendations, contributors>>
                [] resp.kind = "decode" \/ (resp.kind = "ok" /\ resp.body = <<>>) ->
                     /\ si' = si + 1
                     /\ UNCHANGED <<pc, ai, recommendations, contributors,
                                    recs_result>>
                [] resp.kind = "ok" /\ resp.body # <<>> ->
                     /\ recommendations' =
                            Append(recommendations, <<similar[si], resp.body[1].name>>)
                     /\ contributors' = contributors \cup {top_albums[ai].artist}
                     /\ IF ReachedCap(recommendations')
                        THEN /\ ReturnRecs(Ok)
                             /\ UNCHANGED <<ai, si>>
                        ELSE /\ si' = si + 1
                             /\ UNCHANGED <<pc, ai, recs_result>>
    /\ UNCHANGED <<lastfm_top, top_albums, seen_artists, similar_requests,
                   similar, authVars, builderVars, main_result>>

(***************************************************************************)
(* get_spotify_auth_token: the loopback authorization-code flow.           *)
(***************************************************************************)
\* strings are sequences of symbols; "%41" is the percent-encoding of "A"
StateValues == {<<"A">>, <<"B">>}
RawValues == {<<"A">>, <<"B">>, <<"%41">>}

DecodeSymbol(c) == IF c = "%41" THEN "A" ELSE c
PercentDecode(raw) == [i \in DOMAIN raw |-> DecodeSymbol(raw[i])]

RawPairs == {[key |-> "code", value |-> v] : v \in RawValues}
                \cup {[key |-> "state", value |-> v] : v \in StateValues}
Queries == UNION {[1..n -> RawPairs] : n \in 0..MaxQuery}
Paths == {[parses |-> TRUE, query |-> q] : q \in Queries}
             \cup {[parses |-> FALSE, query |-> <<>>]}

\* the request line after split_whitespace()
RequestLines == {<<>>, <<"GET">>} \cup {<<"GET", p, "HTTP/1.1">> : p \in Paths}

\* Url::query_pairs(): the pairs in order, percent-decoded
QueryPairs(path) ==
    [i \in DOMAIN path.query |->
        [key |-> path.query[i].key, value |-> PercentDecode(path.query[i].value)]]

HasKey(pairs, k) == \E i \in DOMAIN pairs : pairs[i].key = k

FindLast(pairs, k) ==
    pairs[CHOOSE i \in DOMAIN pairs :
            /\ pairs[i].key = k
            /\ \A j \in DOMAIN pairs : j > i => pairs[j].key # k]
\* Iterator::find: the first pair whose key is k
Find(pairs, k) ==
    pairs[CHOOSE i \in DOMAIN pairs :
            /\ pairs[i].key = k
            /\ \A j \in DOMAIN pairs : j < i => pairs[j].key # k]

\* lines 142-149: the callback line yields a code
CodePresentIn(line) ==
    /\ Len(line) >= 2
    /\ line[2].parses
    /\ HasKey(QueryPairs(line[2]), "code")

\* the error of lines 142-149, "" when a code is extracted
ParseError(line) ==
    IF Len(line) < 2 THEN "Invalid request"
    ELSE IF ~line[2].parses THEN "url parse"
    ELSE IF ~HasKey(QueryPairs(line[2]), "code") THEN "No code found"
    ELSE ""

\* lines 145-149
ExtractCode(line) == Find(QueryPairs(line[2]), "code").value

AuthStart ==
    /\ pc = "auth_start"
    /\ \E s \in StateValues, outcome \in {"ok", "bind_failed", "spawn_failed"} :
         /\ state' = s
         /\ CASE outcome = "bind_failed" ->
                   /\ pc' = "auth_returned"
                   /\ auth_result' = Err("bind")
                   /\ UNCHANGED listener
              [] outcome = "spawn_failed" ->
                   /\ pc' = "auth_returned"
                   /\ auth_result' = Err("spawn browser")
                   /\ listener' = "closed"
              [] outcome = "ok" ->
                   /\ pc' = "accept"
                   /\ listener' = "bound"
                   /\ UNCHANGED auth_result
    /\ UNCHANGED <<lastfm_top, discoveryVars, accepted, request_line, code,
                   stream, page_written, token_requests, token_response,
                   spotify_token, builderVars, main_result>>

AfterCallbackErrorRetry(n) == IF n < 2 THEN "accept" ELSE "auth_returned"
\* lines 136-155: every `?` returns from the function; n connections were
\* accepted so far
AfterCallbackError(n) == "auth_returned"

\* lines 136-155: accept one connection, read the request line, extract the
\* code, write the success page
AcceptCallback ==
    /\ pc = "accept"
    /\ \E io \in {"ok", "accept_failed", "read_failed", "write_failed"},
          line \in RequestLines :
         LET got == io # "accept_failed"
             read == got /\ io # "read_failed"
             parsed == read /\ CodePresentIn(line)
             err == IF ~got THEN "accept"
                    ELSE IF ~read THEN "read"
                    ELSE IF ~parsed THEN ParseError(line)
                    ELSE IF io = "write_failed" THEN "write"
                    ELSE ""
         IN  /\ accepted' = IF got THEN accepted + 1 ELSE accepted
             /\ request_line' = IF read THEN line ELSE request_line
             /\ code' = IF parsed THEN ExtractCode(line) ELSE code
             /\ page_written' = (parsed /\ io = "ok")
             /\ IF err = ""
                THEN /\ pc' = "token_exchange"
                     /\ stream' = "open"
                     /\ UNCHANGED <<listener, auth_result>>
                ELSE /\ pc' = AfterCallbackError(accepted')
                     /\ auth_result' = Err(err)
                     /\ stream' = IF got THEN "closed" ELSE stream
                     /\ listener' = "closed"
    /\ UNCHANGED <<lastfm_top, discoveryVars, state, token_requests,
                   token_response, spotify_token, builderVars, main_result>>

TokenFailedTransportOnly(kind) == kind \in {"transport", "decode"}
\* lines 170-178: send() fails, the status is not 2xx, or json() fails
TokenFailed(kind) == kind # "ok"

AfterTokenFailureRetry(n) == IF n < 2 THEN "token_exchange" ELSE "auth_returned"
\* lines 170-178: `?` and `return Err` leave the function; n token requests
\* were issued so far
AfterTokenFailure(n) == "auth_returned"

\* lines 158-179: the token request and the return of the function, where
\* `listener` and `stream` go out of scope
TokenExchange ==
    /\ pc = "token_exchange"
    /\ token_requests' = Append(token_requests,
                                [grant_type |-> "authorization_code", code |-> code])
    /\ \E outcome \in {"ok", "transport", "non2xx", "decode"} :
         /\ token_response' = outcome
         /\ IF TokenFailed(outcome)
            THEN /\ auth_result' = Err("token: " \o outcome)
                 /\ pc' = AfterTokenFailure(Len(token_requests'))
                 /\ UNCHANGED spotify_token
            ELSE /\ spotify_token' = "token"
                 /\ auth_result' = Ok
                 /\ pc' = "auth_returned"
    /\ stream' = "closed"
    /\ listener' = "closed"
    /\ UNCHANGED <<lastfm_top, discoveryVars, state, accepted, request_line,
                   code, page_written, builderVars, main_result>>

(***************************************************************************)
(* create_spotify_playlist: the target catalog (Spotify).                  *)
(***************************************************************************)
TrackUri(rec) == [type |-> "track", of |-> rec, via |-> "search"]
AlbumTrackUri(id) == [type |-> "track", of |-> id, via |-> "album"]
\* "spotify:album:<id>" as its ':'-separated segments; the id is the pair
AlbumUri(rec) == <<"spotify", "album", rec>>
\* uri.split(":").last()
AlbumId(uri) == uri[Len(uri)]

NoTracks == [present |-> FALSE, items |-> <<>>]
SomeTracks(items) == [present |-> TRUE, items |-> items]

\* values of the locals before their first assignment
NoSearch == [kind |-> "none", tracks |-> NoTracks, albums |-> <<>>]
NoTracksResponse == [kind |-> "none", items |-> <<>>]
NoPlaylist == [id |-> "", url |-> ""]

SearchFailure(kind) == [kind |-> kind, tracks |-> NoTracks, albums |-> <<>>]
SearchBody(tracks, albums) == [kind |-> "json", tracks |-> tracks, albums |-> albums]

\* every answer to the search for rec
AllSearchResponses(rec) ==
    {SearchFailure(k) : k \in {"transport", "non2xx", "decode"}}
        \cup {SearchBody(t, a) :
                t \in {NoTracks, SomeTracks(<<>>), SomeTracks(<<TrackUri(rec)>>)},
                a \in {<<>>, <<[uri |-> AlbumUri(rec)]>>}}

\* the answers drawn for the i-th recommendation: anything for the first
\* FreeRecs, a fatal failure or a track match afterwards
SearchResponses(i, rec) ==
    IF i <= FreeRecs
    THEN AllSearchResponses(rec)
    ELSE {SearchFailure("transport"), SearchFailure("decode"),
          SearchBody(SomeTracks(<<TrackUri(rec)>>), <<[uri |-> AlbumUri(rec)]>>)}

\* answers to the album-tracks request for album id
TracksResponses(id) ==
    {[kind |-> "transport", items |-> <<>>], [kind |-> "decode", items |-> <<>>],
     [kind |-> "json", items |-> <<>>],
     [kind |-> "json", items |-> <<AlbumTrackUri(id)>>]}

\* line 317: `if let Some(tracks) = search_result.tracks`
TakesTrackBranch(resp) == resp.tracks.present

\* line 322: `else if let Some(album_result) = search_result.albums.items.first()`
TakesAlbumBranch(resp) == ~TakesTrackBranch(resp) /\ resp.albums # <<>>

NumChunksPerUri(s) == Len(s)
\* slice::chunks(100)
NumChunks(s) == (Len(s) + ChunkSize - 1) \div ChunkSize
Chunk(s, k) == SubSeq(s, (k - 1) * ChunkSize + 1, Min(k * ChunkSize, Len(s)))

ReturnBuilder(result) ==
    /\ pc' = "builder_returned"
    /\ builder_result' = result

CreateFailedTransportOnly(kind) == kind \in {"transport", "decode"}
\* lines 261-271: send() fails, the status is not 2xx, or json() fails
CreateFailed(kind) == kind # "ok"

\* lines 243-277
CreatePlaylist ==
    /\ pc = "create_playlist"
    /\ create_requests' = create_requests + 1
    /\ \E outcome \in {"ok", "transport", "non2xx", "decode"} :
         /\ playlist_response' = outcome
         /\ IF CreateFailed(outcome)
            THEN /\ ReturnBuilder(Err("create playlist: " \o outcome))
                 /\ UNCHANGED <<playlist, track_uris, ri>>
            ELSE /\ playlist' = [id |-> "pl1",
                                 url |-> "https://open.spotify.com/playlist/pl1"]
                 /\ track_uris' = <<>>
                 /\ ri' = 1
                 /\ pc' = "search_loop"
                 /\ UNCHANGED builder_result
    /\ UNCHANGED <<lastfm_top, discoveryVars, authVars, search_response,
                   tracks_response, album_track_requests, bi, add_calls,
                   main_result>>

\* lines 279-344: one iteration of the search loop, or its end
SearchStep ==
    /\ pc = "search_loop"
    /\ IF ri > Len(recommendations)
       THEN /\ pc' = "add_tracks"
            /\ bi' = 1
            /\ UNCHANGED <<ri, search_response, tracks_response,
                           album_track_requests, track_uris, builder_result>>
       ELSE \E resp \in SearchResponses(ri, recommendations[ri]) :
              /\ search_response' = resp
              /\ UNCHANGED bi
              /\ CASE resp.kind \in {"transport", "decode"} ->
                        /\ ReturnBuilder(Err("search: " \o resp.kind))
                        /\ tracks_response' = NoTracksResponse
                        /\ UNCHANGED <<ri, album_track_requests, track_uris>>
                   [] resp.kind = "non2xx" ->
                        /\ ri' = ri + 1
                        /\ tracks_response' = NoTracksResponse
                        /\ UNCHANGED <<pc, album_track_requests, track_uris,
                                       builder_result>>
                   [] resp.kind = "json" /\ TakesTrackBranch(resp) ->
                        /\ track_uris' = IF resp.tracks.items # <<>>
                                         THEN Append(track_uris, resp.tracks.items[1])
                                         ELSE track_uris
                        /\ ri' = ri + 1
                        /\ tracks_response' = NoTracksResponse
                        /\ UNCHANGED <<pc, album_track_requests, builder_result>>
                   [] resp.kind = "json" /\ TakesAlbumBranch(resp) ->
                        LET id == AlbumId(resp.albums[1].uri) IN
                        /\ album_track_requests' = Append(album_track_requests, id)
                        /\ \E tr \in TracksResponses(id) :
                             /\ tracks_response' = tr
                             /\ track_uris' = IF tr.kind = "json" /\ tr.items # <<>>
                                              THEN Append(track_uris, tr.items[1])
                                              ELSE track_uris
                        /\ ri' = ri + 1
                        /\ UNCHANGED <<pc, builder_result>>
                   [] resp.kind = "json" /\ ~TakesTrackBranch(resp)
                                         /\ ~TakesAlbumBranch(resp) ->
                        /\ ri' = ri + 1
                        /\ tracks_response' = NoTracksResponse
                        /\ UNCHANGED <<pc, album_track_requests, track_uris,
                                       builder_result>>
    /\ UNCHANGED <<lastfm_top, discoveryVars, authVars, create_requests,
                   playlist_response, playlist, add_calls, main_result>>

AddTargetUrl(pl) == pl.url
\* lines 353-356: the path segment of the track-addition request
AddTarget(pl) == pl.id

\* lines 346-372: one track-addition request, or the end of the function
AddBatch ==
    /\ pc = "add_tracks"
    /\ IF track_uris = <<>> \/ bi > NumChunks(track_uris)
       THEN /\ ReturnBuilder(Ok)
            /\ UNCHANGED <<bi, add_calls>>
       ELSE /\ add_calls' = Append(add_calls, [playlist |-> AddTarget(playlist),
                                               uris |-> Chunk(track_uris, bi)])
            /\ \E outcome \in {"ok", "non2xx", "transport"} :
                 IF outcome = "transport"
                 THEN /\ ReturnBuilder(Err("add tracks: transport"))
                      /\ UNCHANGED bi
                 ELSE /\ bi' = bi + 1
                      /\ UNCHANGED <<pc, builder_result>>
    /\ UNCHANGED <<lastfm_top, discoveryVars, authVars, create_requests,
                   playlist_response, playlist, ri, search_response,
                   tracks_response, album_track_requests, track_uris,
                   main_result>>

(***************************************************************************)
(* main                                                                    *)
(***************************************************************************)
Exit(result) ==
    /\ pc' = "exit"
    /\ main_result' = result

\* lines 377-388
MainStart ==
    /\ pc = "main_start"
    /\ \E env \in {"ok", "missing"} :
         IF env = "ok"
         THEN pc' = "fetch_top_albums" /\ UNCHANGED main_result
         ELSE Exit(Err("env var"))
    /\ UNCHANGED <<lastfm_top, discoveryVars, authVars, builderVars>>

IsEmptyNever(recs) == FALSE
\* line 393: recommendations.is_empty()
IsEmpty(recs) == recs = <<>>

\* lines 391-404
MainAfterRecs ==
    /\ pc = "recs_returned"
    /\ IF recs_result.status = "err" THEN Exit(Err(recs_result.err))
       ELSE IF IsEmpty(recommendations) THEN Exit(Ok)
       ELSE pc' = "auth_start" /\ UNCHANGED main_result
    /\ UNCHANGED <<lastfm_top, discoveryVars, authVars, builderVars>>

\* lines 405-411
MainAfterAuth ==
    /\ pc = "auth_returned"
    /\ IF auth_result.status = "err" THEN Exit(Err(auth_result.err))
       ELSE pc' = "create_playlist" /\ UNCHANGED main_result
    /\ UNCHANGED <<lastfm_top, discoveryVars, authVars, builderVars>>

\* lines 412-444
MainAfterBuilder ==
    /\ pc = "builder_returned"
    /\ IF builder_result.status = "ok"
       THEN \E spawn \in {"ok", "failed"} :
              Exit(IF spawn = "ok" THEN Ok ELSE Err("spawn browser"))
       ELSE Exit(Ok)
    /\ UNCHANGED <<lastfm_top, discoveryVars, authVars, builderVars>>

(***************************************************************************)
(* Initial states.                                                         *)
(***************************************************************************)
InitLocals ==
    /\ top_albums = <<>>
    /\ ai = 0
    /\ seen_artists = {}
    /\ similar_requests = <<>>
    /\ similar = <<>>
    /\ si = 0
    /\ contributors = {}
    /\ state = <<>>
    /\ listener = "none"
    /\ accepted = 0
    /\ request_line = <<>>
    /\ code = <<>>
    /\ stream = "none"
    /\ page_written = FALSE
    /\ token_requests = <<>>
    /\ token_response = "none"
    /\ create_requests = 0
    /\ playlist_response = "none"
    /\ playlist = NoPlaylist
    /\ ri = 0
    /\ search_response = NoSearch
    /\ tracks_response = NoTracksResponse
    /\ album_track_requests = <<>>
    /\ track_uris = <<>>
    /\ bi = 0
    /\ add_calls = <<>>
    /\ builder_result = NoResult
    /\ main_result = NoResult

\* get_recommendations called on its own
InitDiscovery ==
    /\ pc = "fetch_top_albums"
    /\ lastfm_top \in DiscoveryTopInputs
    /\ recommendations = <<>>
    /\ recs_result = NoResult
    /\ spotify_token = ""
    /\ auth_result = NoResult
    /\ InitLocals

NextDiscovery == FetchTopAlbums \/ NextAlbum \/ NextSimilar

SpecDiscovery == InitDiscovery /\ [][NextDiscovery]_vars

\* create_spotify_playlist called on its own with any recommendation slice
RecsOfLen(n) == [i \in 1..n |-> <<"r" \o ToString(i), "LP">>]
BuilderLens == (0..SmallRecs) \cup {ChunkSize + 1, 2 * ChunkSize + LastBatch}

InitBuilder ==
    /\ pc = "create_playlist"
    /\ lastfm_top = <<>>
    /\ recommendations \in {RecsOfLen(n) : n \in BuilderLens}
    /\ recs_result = Ok
    /\ spotify_token = "token"
    /\ auth_result = Ok
    /\ InitLocals

NextBuilder == CreatePlaylist \/ SearchStep \/ AddBatch

SpecBuilder == InitBuilder /\ [][NextBuilder]_vars

\* the whole program
Init ==
    /\ pc = "main_start"
    /\ lastfm_top \in MainTopInputs
    /\ recommendations = <<>>
    /\ recs_result = NoResult
    /\ spotify_token = ""
    /\ auth_result = NoResult
    /\ InitLocals

Next ==
    \/ MainStart
    \/ FetchTopAlbums
    \/ NextAlbum
    \/ NextSimilar
    \/ MainAfterRecs
    \/ AuthStart
    \/ AcceptCallback
    \/ TokenExchange
    \/ MainAfterAuth
    \/ CreatePlaylist
    \/ SearchStep
    \/ AddBatch
    \/ MainAfterBuilder

Spec == Init /\ [][Next]_vars

\* the whole program when every call it waits for returns: each request is
\* answered, and a connection arrives at the listener
InitLive ==
    /\ pc = "main_start"
    /\ lastfm_top \in LiveTopInputs
    /\ recommendations = <<>>
    /\ recs_result = NoResult
    /\ spotify_token = ""
    /\ auth_result = NoResult
    /\ InitLocals

SpecLive == InitLive /\ [][Next]_vars /\ WF_vars(Next)

(***************************************************************************)
(* Properties.                                                             *)
(***************************************************************************)
ReturnedRecs == pc = "recs_returned" /\ recs_result.status = "ok"

\* C1: the list returned by get_recommendations contains no two entries
\* with the same artist name.
C1_NoDuplicateArtists ==
    ReturnedRecs =>
        \A i, j \in DOMAIN recommendations :
            i # j => recommendations[i][1] # recommendations[j][1]

\* C2: a transport or deserialization failure of a similar-artist lookup or
\* of a per-artist top-album lookup never makes get_recommendations return
\* an error.
C2_LookupFailureNonFatal ==
    recs_result.status = "err" =>
        recs_result.err \notin {"similar artists: transport",
                                "artist top albums: transport"}

\* C6: the recommendation list never holds more than 10 entries, during
\* discovery and when it is returned.
C6_AtMostCap == Len(recommendations) <= 10

\* a returned list of exactly 10 entries
C6_CapReached == ReturnedRecs /\ Len(recommendations) = 10

\* C7: the step that inserts the 10th recommendation returns the list; once
\* the list holds 10 entries no step of get_recommendations is taken any
\* more (no request, no top album visited) and the list is not changed;
\* entries are only ever appended.
C7_StopsAtCap ==
    [][/\ SubSeq(recommendations', 1, Len(recommendations)) = recommendations
       /\ (Len(recommendations') >= 10 /\ recommendations' # recommendations)
             => (pc' = "recs_returned" /\ recs_result' = Ok
                 /\ Len(recommendations') = 10)
       /\ Len(recommendations) >= 10
             => (~NextDiscovery /\ recommendations' = recommendations)]_vars

\* the 10th insertion returned while a top album was still unvisited
C7_StoppedWithAlbumsLeft ==
    /\ ReturnedRecs
    /\ Len(recommendations) = 10
    /\ ai < Len(top_albums)
    /\ top_albums[Len(top_albums)].artist \notin seen_artists

\* the recommendation whose search answer is in search_response
SearchedRec ==
    recommendations[IF search_response.kind \in {"transport", "decode"}
                    THEN ri ELSE ri - 1]

\* C3: a search that fails at transport level or returns a non-2xx status
\* records no match for its recommendation and never makes the builder
\* return an error.
C3_SearchFailureSkips ==
    search_response.kind \in {"transport", "non2xx"} =>
        /\ builder_result # Err("search: transport")
        /\ \A k \in DOMAIN track_uris : track_uris[k].of # SearchedRec

\* C4: when a successful search response has no track match (absent or
\* empty track list) and at least one album match, the album-tracks request
\* for the first album is issued, and a track it yields is recorded.
C4_AlbumFallback ==
    (/\ search_response.kind = "json"
     /\ search_response.tracks.items = <<>>
     /\ search_response.albums # <<>>)
        => /\ tracks_response.kind # "none"
           /\ album_track_requests # <<>>
           /\ album_track_requests[Len(album_track_requests)]
                  = AlbumId(search_response.albums[1].uri)
           /\ (tracks_response.kind = "json" /\ tracks_response.items # <<>>)
                  => /\ track_uris # <<>>
                     /\ track_uris[Len(track_uris)] = tracks_response.items[1]

RECURSIVE Payloads(_)
\* the payloads of a sequence of track-addition calls, concatenated
Payloads(calls) ==
    IF calls = <<>> THEN <<>>
    ELSE Payloads(SubSeq(calls, 1, Len(calls) - 1)) \o calls[Len(calls)].uris

\* the index of the recommendation a matched URI was found for
RecOf(uri) ==
    CHOOSE i \in DOMAIN recommendations :
        recommendations[i] = uri.of

\* C8: once the search loop has ended with n >= 1 matched URIs, the builder
\* makes exactly ceil(n/100) track-addition calls before it returns, each
\* of at most 100 URIs, all but the last of exactly 100, whose payloads
\* concatenated are the matched list, which is in recommendation order.
C8_BatchCalls ==
    (pc = "builder_returned" /\ bi >= 1 /\ Len(track_uris) >= 1) =>
        /\ Len(add_calls) = (Len(track_uris) + 99) \div 100
        /\ \A k \in DOMAIN add_calls :
             /\ Len(add_calls[k].uris) <= 100
             /\ k < Len(add_calls) => Len(add_calls[k].uris) = 100
        /\ Payloads(add_calls) = track_uris
        /\ \A k, l \in DOMAIN track_uris :
             k < l => RecOf(track_uris[k]) < RecOf(track_uris[l])

\* C9: a failed track-addition write (transport failure or non-2xx) never
\* makes the builder return an error, and every batch is still attempted.
C9_BatchFailureIsWarning ==
    /\ builder_result # Err("add tracks: transport")
    /\ (pc = "builder_returned" /\ bi >= 1 /\ track_uris # <<>>)
          => Len(add_calls) = (Len(track_uris) + 99) \div 100

\* the query of the callback path, when a request line with a parseable
\* path was read
CallbackRead ==
    /\ accepted > 0
    /\ Len(request_line) >= 2
    /\ request_line[2].parses
CallbackQuery == request_line[2].query
CodeIndexes == {i \in DOMAIN CallbackQuery : CallbackQuery[i].key = "code"}
StateIndexes == {i \in DOMAIN CallbackQuery : CallbackQuery[i].key = "state"}
FirstOf(indexes) == CHOOSE i \in indexes : \A j \in indexes : i <= j
Decoded(raw) == [i \in DOMAIN raw |-> IF raw[i] = "%41" THEN "A" ELSE raw[i]]

\* C5: a token-exchange request is issued only if the callback echoed a
\* state equal to the one generated before the redirect.
C5_StateVerified ==
    token_requests # <<>> =>
        /\ CallbackRead
        /\ StateIndexes # {}
        /\ Decoded(CallbackQuery[FirstOf(StateIndexes)].value) = state

\* C10: a callback path without a `code` parameter makes the flow fail with
\* "No code found": no token request, no access token, no playlist-creation
\* request; every token request carries the value of the path's first
\* `code` parameter.
C10_CodeRequired ==
    /\ (CallbackRead /\ CodeIndexes = {}) =>
          /\ auth_result = Err("No code found")
          /\ token_requests = <<>>
          /\ spotify_token = ""
          /\ create_requests = 0
          /\ playlist = NoPlaylist
    /\ \A k \in DOMAIN token_requests :
          /\ CallbackRead
          /\ CodeIndexes # {}
          /\ token_requests[k].code
                = Decoded(CallbackQuery[FirstOf(CodeIndexes)].value)

\* the run ended after a callback whose path had a state but no code
C10_EndedWithoutCode ==
    /\ pc = "exit"
    /\ CallbackRead
    /\ CodeIndexes = {}
    /\ StateIndexes # {}
    /\ main_result = Err("No code found")

\* C11: a non-2xx answer to the playlist-creation request makes the builder
\* return an error at once: no playlist is held, and no search, album-tracks
\* or track-addition request is ever issued afterwards.
C11_CreateFailureStops ==
    playlist_response = "non2xx" =>
        /\ pc = "builder_returned"
        /\ builder_result = Err("create playlist: non2xx")
        /\ playlist = NoPlaylist
        /\ ri = 0
        /\ search_response = NoSearch
        /\ album_track_requests = <<>>
        /\ add_calls = <<>>

\* the builder returned after a rejected creation, with work left undone
C11_CreateRejected ==
    /\ pc = "builder_returned"
    /\ playlist_response = "non2xx"
    /\ Len(recommendations) = 3

\* C12: a non-2xx answer of the token endpoint ends the authorization flow
\* with an error: no access token is returned, the token request was issued
\* once and is not repeated, and no playlist-creation request is ever
\* issued; main ends with that error.
C12_TokenFailureTerminal ==
    token_response = "non2xx" =>
        /\ pc \in {"auth_returned", "exit"}
        /\ auth_result = Err("token: non2xx")
        /\ spotify_token = ""
        /\ Len(token_requests) = 1
        /\ create_requests = 0
        /\ playlist_response = "none"
        /\ pc = "exit" => main_result = Err("token: non2xx")

\* the run ended after the token endpoint refused the code
C12_EndedOnTokenRefusal ==
    /\ pc = "exit"
    /\ token_response = "non2xx"
    /\ page_written
    /\ main_result = Err("token: non2xx")

\* C13: the playlist-creation request is issued at most once, and every
\* track-addition request targets the id returned by that creation.
C13_SinglePlaylist ==
    /\ create_requests <= 1
    /\ \A k \in DOMAIN add_calls :
         /\ create_requests = 1
         /\ playlist_response = "ok"
         /\ playlist.id # ""
         /\ add_calls[k].playlist = playlist.id

\* three track-addition requests were sent to the playlist created once
C13_ThreeBatchesOnePlaylist ==
    /\ pc = "builder_returned"
    /\ create_requests = 1
    /\ Len(add_calls) = 3

\* C14: when get_recommendations returns an empty list, main ends with Ok
\* and the listener was never bound, the authorization flow never started
\* and no token or playlist-creation request was issued.
C14_EmptyEndsQuietly ==
    (recs_result = Ok /\ recommendations = <<>>) =>
        /\ pc \in {"recs_returned", "exit"}
        /\ pc = "exit" => main_result = Ok
        /\ listener = "none"
        /\ state = <<>>
        /\ accepted = 0
        /\ token_requests = <<>>
        /\ create_requests = 0

\* the run ended normally after a lookup that produced no recommendation
C14_EndedWithNothingToDo ==
    /\ pc = "exit"
    /\ recs_result = Ok
    /\ recommendations = <<>>
    /\ similar_requests # <<>>
    /\ main_result = Ok

\* C15: when the builder returns after creating the playlist with no track
\* matched, it has issued no track-addition request and returns Ok.
C15_NoMatchIsSuccess ==
    (pc = "builder_returned" /\ playlist_response = "ok" /\ track_uris = <<>>) =>
        /\ add_calls = <<>>
        /\ builder_result = Ok

\* C16: at most one connection is ever accepted, and once one was accepted
\* the flow is never again at the accept call, whatever the request held.
C16_OneConnection ==
    /\ accepted <= 1
    /\ accepted = 1 => pc \notin {"auth_start", "accept"}

\* the run ended after one connection whose request line had no path
C16_EndedOnMalformedRequest ==
    /\ pc = "exit"
    /\ accepted = 1
    /\ request_line = <<"GET">>
    /\ main_result = Err("Invalid request")

\* a step from this state visits top album ai
VisitsAlbum == pc = "top_album_loop" /\ ai <= Len(top_albums)
VisitedArtist == top_albums[ai].artist
\* the step sends an artist.getsimilar request
LookupIssued == similar_requests' # similar_requests

\* C17 as stated: a top album is skipped (no similar-artist lookup for it)
\* exactly when its artist contributed a recommendation earlier in the run.
C17_SkipIffContributed ==
    [][VisitsAlbum => (~LookupIssued <=> VisitedArtist \in contributors)]_vars

\* C17: a top album is skipped (no similar-artist lookup for it) exactly
\* when an earlier top album of the run has the same artist name, whether
\* or not that artist contributed a recommendation; a lookup is for the
\* artist of the visited album.
C17_SkipIffSeenEarlier ==
    [][VisitsAlbum =>
         /\ ~LookupIssued <=>
                \E j \in 1..(ai - 1) : top_albums[j].artist = VisitedArtist
         /\ LookupIssued =>
                similar_requests' = Append(similar_requests, VisitedArtist)]_vars

\* the second album of an artist was skipped though the artist had
\* contributed no recommendation
C17_SkippedWithoutContribution ==
    /\ pc = "top_album_loop"
    /\ ai = 3
    /\ top_albums[1].artist = top_albums[2].artist
    /\ contributors = {}
    /\ similar_requests = <<top_albums[1].artist>>

\* C18: the token request is issued only when the success page has been
\* written and the callback connection is closed; the success page is
\* written only after a code was extracted from the callback.
C18_ClosedBeforeTokenPost ==
    [][/\ token_requests' # token_requests
             => (page_written /\ stream = "closed")
       /\ page_written' => (CallbackRead /\ CodeIndexes # {})']_vars

C20_TerminatesWithoutRetry ==
    /\ <>(pc = "exit")
    /\ [](/\ accepted <= 1
          /\ Len(token_requests) <= 1
          /\ create_requests <= 1
          /\ \A i, j \in DOMAIN similar_requests :
                i # j => similar_requests[i] # similar_requests[j]
          /\ Len(album_track_requests) <= Len(recommendations)
          /\ Len(add_calls) <= (Len(track_uris) + 99) \div 100)
    /\ [](pc = "accept" => /\ recommendations # <<>>
                           /\ token_requests = <<>>
                           /\ create_requests = 0)
    /\ [][pc = "accept" => AcceptCallback]_vars

\* a run that went through every call ended
C20_EndedAfterFullRun ==
    /\ pc = "exit"
    /\ accepted = 1
    /\ Len(token_requests) = 1
    /\ create_requests = 1
    /\ add_calls # <<>>
    /\ main_result = Ok

====
